---- MODULE Spec2Model ----
(***************************************************************************)
(* AutoPilot QA - minimal stdlib web UI (src/lam_qa_agent_ui.py).          *)
(*                                                                         *)
(* Text is modelled as a sequence of tokens.  A token is either a single   *)
(* character (" ", "5", "<", ...) or a literal chunk of text that holds no *)
(* markup character and is never stripped ("Idle", "**Run failed:** ").    *)
(* Python's Optional[T] is modelled as a sequence of length 0 (None) or 1  *)
(* (the value).                                                            *)
(*                                                                         *)
(* Spec     : the server, after HTTPServer(...) succeeded (serve_forever). *)
(* SpecTwin : two servers fed the same requests, whose engines may behave  *)
(*            differently (self-composition for the information-flow       *)
(*            claim).                                                      *)
(* SpecMain : the process from main() to its exit.                         *)
(* SpecBridge : calls of run_pipeline.                                     *)
(* SpecValidate, SpecParse, SpecRender : validate_fields, parse_fields and *)
(*            render_page applied to the inputs of the model.              *)
(***************************************************************************)
EXTENDS Integers, Sequences, FiniteSets, TLC

VARIABLES
  LAST_RESULTS_JSON,  \* Optional[str]: the global of line 58
  LAST_SUMMARY_MD,    \* Optional[str]: the global of line 59
  LAST_LOGS,          \* List[str]: the global of line 60
  pc,                 \* position of the request being handled by do_POST
  cur,                \* locals of the POST in flight (fields, outcome, ...)
  resp,               \* the response sent to the most recent request
  calls,              \* run_pipeline and engine invocations made for the most recent request
  lastRun,            \* history: outcome of the most recent run_pipeline of a POST
  everSuccess,        \* history: some POST completed with a raw_result
  seen,               \* history: ServerState as found by the most recent reader
  twin,               \* SpecTwin: ServerState and response of the second server
  env,                \* SpecMain: the process environment and what the platform does
  mpc,                \* SpecMain: position in main()
  exitCode,           \* SpecMain: Optional[int], "crash" for an uncaught exception
  events,             \* SpecMain: what the process did, in order
  bridge,             \* SpecBridge: one call of run_pipeline, its arguments and result
  fn                  \* SpecValidate, SpecParse, SpecRender: the function applied,
                      \* its arguments and what it gave

serverVars == <<LAST_RESULTS_JSON, LAST_SUMMARY_MD, LAST_LOGS, pc, cur, resp,
                calls, lastRun, everSuccess, seen>>
mainVars == <<env, mpc, exitCode, events>>
vars == <<serverVars, twin, mainVars, bridge, fn>>

----------------------------------------------------------------------------
(* Bounds of the model *)

\* at most this many messages are emitted by the engine in one call
MaxLogs == 1

----------------------------------------------------------------------------
(* Optional values and Python truthiness *)

None == <<>>
Some(v) == <<v>>
IsNone(o) == Len(o) = 0
\* `x or default` for an Optional[str] / Optional[list]: None and empty are falsy
OrElse(o, default) == IF Len(o) = 1 /\ Len(o[1]) > 0 THEN o[1] ELSE default

----------------------------------------------------------------------------
(* Text helpers *)

Whitespace == {" ", "\t", "\n"}
Digits == {"0", "1", "2", "3", "4", "5", "6", "7", "8", "9"}

DigitVal(c) ==
  CASE c = "0" -> 0 [] c = "1" -> 1 [] c = "2" -> 2 [] c = "3" -> 3
    [] c = "4" -> 4 [] c = "5" -> 5 [] c = "6" -> 6 [] c = "7" -> 7
    [] c = "8" -> 8 [] c = "9" -> 9

DigitTok(d) ==
  CASE d = 0 -> "0" [] d = 1 -> "1" [] d = 2 -> "2" [] d = 3 -> "3"
    [] d = 4 -> "4" [] d = 5 -> "5" [] d = 6 -> "6" [] d = 7 -> "7"
    [] d = 8 -> "8" [] d = 9 -> "9"

RECURSIVE lstrip(_)
lstrip(s) == IF Len(s) > 0 /\ s[1] \in Whitespace THEN lstrip(Tail(s)) ELSE s

RECURSIVE rstrip(_)
rstrip(s) ==
  IF Len(s) > 0 /\ s[Len(s)] \in Whitespace
  THEN rstrip(SubSeq(s, 1, Len(s) - 1)) ELSE s

\* str.strip()
strip(s) == rstrip(lstrip(s))

\* whether int(s) succeeds: an optional sign, then decimal digits, single
\* underscores allowed between digits
IsIntLiteral(s) ==
  LET body == IF Len(s) > 0 /\ s[1] \in {"+", "-"} THEN Tail(s) ELSE s
  IN /\ Len(body) > 0
     /\ \A i \in 1..Len(body) : body[i] \in Digits \cup {"_"}
     /\ body[1] \in Digits /\ body[Len(body)] \in Digits
     /\ \A i \in 1..(Len(body) - 1) : ~(body[i] = "_" /\ body[i + 1] = "_")

RECURSIVE DigitsValue(_, _)
DigitsValue(s, acc) ==
  IF Len(s) = 0 THEN acc
  ELSE IF s[1] = "_" THEN DigitsValue(Tail(s), acc)
  ELSE DigitsValue(Tail(s), 10 * acc + DigitVal(s[1]))

\* int(s), for an s with IsIntLiteral(s)
IntValue(s) ==
  IF s[1] = "-" THEN 0 - DigitsValue(Tail(s), 0)
  ELSE IF s[1] = "+" THEN DigitsValue(Tail(s), 0)
  ELSE DigitsValue(s, 0)

RECURSIVE NatToStr(_)
NatToStr(n) ==
  IF n < 10 THEN <<DigitTok(n)>> ELSE NatToStr(n \div 10) \o <<DigitTok(n % 10)>>

\* str(n) for an int
IntToStr(n) == IF n < 0 THEN <<"-">> \o NatToStr(0 - n) ELSE NatToStr(n)

EscapeTok(c) ==
  CASE c = "&" -> "&amp;"
    [] c = "<" -> "&lt;"
    [] c = ">" -> "&gt;"
    [] c = "\"" -> "&quot;"
    [] c = "'" -> "&#x27;"
    [] OTHER -> c

\* html.escape(s) (quote=True)
html_escape(s) == [i \in 1..Len(s) |-> EscapeTok(s[i])]

\* sep.join(list)
RECURSIVE Join(_, _)
Join(sep, list) ==
  IF Len(list) = 0 THEN <<>>
  ELSE IF Len(list) = 1 THEN list[1]
  ELSE list[1] \o <<sep>> \o Join(sep, Tail(list))

----------------------------------------------------------------------------
(* Configuration *)

PORT == 8000

----------------------------------------------------------------------------
(* render_page *)

RECURSIVE ValidationItems(_)
ValidationItems(list) ==
  IF Len(list) = 0 THEN <<>>
  ELSE <<"<li>">> \o html_escape(list[1]) \o <<"</li>">> \o ValidationItems(Tail(list))

\* mutant of render_page: without a summary the page shows the stored one
RenderPageStoredSummary(url, api_key, num_tests, headless, prd_text, validation, status, logs, summary_md) ==
  [ port |-> PORT,
    url |-> html_escape(url),
    api_key |-> html_escape(api_key),
    num_tests |-> html_escape(num_tests),
    headless_checked |-> IF headless THEN <<"checked">> ELSE <<>>,
    prd_text |-> html_escape(prd_text),
    validation_html |->
      IF Len(validation) = 1 /\ Len(validation[1]) > 0
      THEN <<"<div class='small error' style='margin-top:10px'><ul>">>
           \o ValidationItems(validation[1]) \o <<"</ul></div>">>
      ELSE <<>>,
    status_html |-> <<"<span class='small'>">> \o html_escape(status) \o <<"</span>">>,
    logs_html |-> html_escape(Join("\n", OrElse(logs, <<>>))),
    summary_html |->
      html_escape(OrElse(summary_md, OrElse(LAST_SUMMARY_MD, <<"(no summary yet)">>))) ]

\* the slots PAGE.format fills; validation and logs are Optional[List[str]],
\* summary_md is Optional[str], num_tests is a str at every call site
render_page(url, api_key, num_tests, headless, prd_text, validation, status, logs, summary_md) ==
  [ port |-> PORT,
    url |-> html_escape(url),
    api_key |-> html_escape(api_key),
    num_tests |-> html_escape(num_tests),
    headless_checked |-> IF headless THEN <<"checked">> ELSE <<>>,
    prd_text |-> html_escape(prd_text),
    validation_html |->
      IF Len(validation) = 1 /\ Len(validation[1]) > 0
      THEN <<"<div class='small error' style='margin-top:10px'><ul>">>
           \o ValidationItems(validation[1]) \o <<"</ul></div>">>
      ELSE <<>>,
    status_html |-> <<"<span class='small'>">> \o html_escape(status) \o <<"</span>">>,
    logs_html |-> html_escape(Join("\n", OrElse(logs, <<>>))),
    summary_html |-> html_escape(OrElse(summary_md, <<"(no summary yet)">>)) ]

\* mutant of RenderDefaultPage: the page of a GET shows the last run
RenderLastRunPage ==
  render_page(<<>>, <<>>, <<"3">>, TRUE, <<>>, None, <<"Idle">>, Some(LAST_LOGS), LAST_SUMMARY_MD)

\* render_page() with every parameter at its default
RenderDefaultPage ==
  render_page(<<>>, <<>>, <<"3">>, TRUE, <<>>, None, <<"Idle">>, None, None)

----------------------------------------------------------------------------
(* parse_fields, validate_fields *)

\* qs.get(k, [default])
QsGet(qs, k, default) == IF k \in DOMAIN qs THEN qs[k] ELSE default

\* the lambda `get` of parse_fields: first value, or the default when it is empty
GetField(qs, k) ==
  LET v == QsGet(qs, k, <<<<>>>>)[1] IN IF Len(v) > 0 THEN v ELSE <<>>

\* mutant of HeadlessTruthy: the value is compared without regard to case
HeadlessTruthyAnyCase ==
  {<<"o", "n">>, <<"t", "r", "u", "e">>, <<"1">>, <<"O", "N">>, <<"T", "r", "u", "e">>}

\* line 205
HeadlessTruthy == {<<"o", "n">>, <<"t", "r", "u", "e">>, <<"1">>}

ParseHeadless(qs) ==
  "headless" \in DOMAIN qs /\ QsGet(qs, "headless", <<<<"o", "n">>>>)[1] \in HeadlessTruthy

\* mutant of ParseFails: only a text that is no integer is refused
ParseFailsNonNumeric(qs) ==
  LET num_tests_raw == strip(GetField(qs, "num_tests"))
  IN IF Len(num_tests_raw) = 0 THEN FALSE ELSE ~IsIntLiteral(num_tests_raw)

\* whether parse_fields raises ValueError
ParseFails(qs) ==
  LET num_tests_raw == strip(GetField(qs, "num_tests"))
  IN IF Len(num_tests_raw) = 0 THEN FALSE
     ELSE IF IsIntLiteral(num_tests_raw) THEN IntValue(num_tests_raw) < 1
     ELSE TRUE

ParseErrorMessage == <<"Number of tests must be a positive integer if provided.">>

\* parse_fields(qs), for a qs on which it does not raise
parse_fields(qs) ==
  LET num_tests_raw == strip(GetField(qs, "num_tests"))
  IN [ url |-> strip(GetField(qs, "url")),
       api_key |-> strip(GetField(qs, "api_key")),
       num_tests |-> IF Len(num_tests_raw) > 0 THEN Some(IntValue(num_tests_raw))
                     ELSE None,
       headless |-> ParseHeadless(qs),
       prd_text |-> strip(GetField(qs, "prd_text")) ]

\* mutant of validate_fields: the URL is looked at first
ValidateUrlFirst(fields) ==
  (IF Len(fields.url) = 0 THEN <<<<"Application URL is required.">>>> ELSE <<>>)
  \o (IF Len(fields.api_key) = 0 THEN <<<<"Anthropic API Key is required.">>>> ELSE <<>>)
  \o (IF Len(fields.prd_text) = 0 THEN <<<<"PRD text is required.">>>> ELSE <<>>)

validate_fields(fields) ==
  (IF Len(fields.api_key) = 0 THEN <<<<"Anthropic API Key is required.">>>> ELSE <<>>)
  \o (IF Len(fields.url) = 0 THEN <<<<"Application URL is required.">>>> ELSE <<>>)
  \o (IF Len(fields.prd_text) = 0 THEN <<<<"PRD text is required.">>>> ELSE <<>>)

----------------------------------------------------------------------------
(* The external engine (lam_qa_agent.run_autopilot_qa), an opaque callable: *)
(* what one call of it may do.  Its failures are exceptions deriving from  *)
(* Exception (the engine contract: a missing-dependency or a generic       *)
(* failure); KeyboardInterrupt and SystemExit are not engine failures.     *)

\* the messages of one call: "step 1", "step 2", ... up to MaxLogs of them
LogSeqs == {[i \in 1..k |-> <<"step ", DigitTok(i)>>] : k \in 0..MaxLogs}

EngineSummaries == {<<"2 passed">>}
\* a structured result: a dict of ints, or an object json.dumps rejects
EngineResults ==
  { [ser |-> TRUE, items |-> <<>>],
    [ser |-> TRUE, items |-> <<[key |-> "n", val |-> 1]>>],
    [ser |-> FALSE, items |-> <<>>] }

NoResults == [ser |-> FALSE, items |-> <<>>]

\* kind "load_fail": `from lam_qa_agent import run_autopilot_qa` raises cls(msg);
\* kind "return": the call returns (summary, results) after emitting emits;
\* kind "raise": the call raises cls(msg) after emitting emits
Behaviours(logSeqs) ==
  {[kind |-> "load_fail", cls |-> "ModuleNotFoundError",
    msg |-> <<"No module named ", "'", "lam_qa_agent", "'">>, emits |-> <<>>,
    summary |-> <<>>, results |-> NoResults]}
  \cup {[kind |-> "return", cls |-> "", msg |-> <<>>, emits |-> l, summary |-> s,
         results |-> r] : l \in logSeqs, s \in EngineSummaries, r \in EngineResults}
  \cup {[kind |-> "raise", cls |-> "ModuleNotFoundError",
         msg |-> <<"No module named ", "'", "playwright", "'">>, emits |-> l,
         summary |-> <<>>, results |-> NoResults] : l \in logSeqs}
  \cup {[kind |-> "raise", cls |-> "RuntimeError", msg |-> <<"boom ", "<", "!", ">">>,
         emits |-> l, summary |-> <<>>, results |-> NoResults] : l \in logSeqs}

EngineBehaviours == Behaviours(LogSeqs)

----------------------------------------------------------------------------
(* Exceptions *)

\* the base class of an exception class ("" above BaseException)
BaseOf(cls) ==
  CASE cls = "ModuleNotFoundError" -> "ImportError"
    [] cls = "FileNotFoundError" -> "OSError"
    [] cls = "OverflowError" -> "ArithmeticError"
    [] cls \in {"ImportError", "TypeError", "RuntimeError", "ValueError", "OSError",
                "ArithmeticError"} -> "Exception"
    [] cls = "Exception" -> "BaseException"
    [] OTHER -> ""

\* whether `except handler` catches an exception of class cls
RECURSIVE Catches(_, _)
Catches(handler, cls) ==
  IF cls = "" THEN FALSE
  ELSE IF cls = handler THEN TRUE
  ELSE Catches(handler, BaseOf(cls))

----------------------------------------------------------------------------
(* run_pipeline *)

RECURSIVE JsonItems(_)
JsonItems(items) ==
  IF Len(items) = 0 THEN <<>>
  ELSE <<"\n", " ", " ", "\"", items[1].key, "\"", ":", " ">>
       \o IntToStr(items[1].val)
       \o (IF Len(items) > 1 THEN <<",">> ELSE <<>>)
       \o JsonItems(Tail(items))

\* json.dumps(results, indent=2), for a serializable results
json_dumps(results) ==
  IF Len(results.items) = 0 THEN <<"{", "}">>
  ELSE <<"{">> \o JsonItems(results.items) \o <<"\n", "}">>

\* the closure `logger` called once per emitted message, on the initially empty list
\* mutant of Logged: the sink keeps one message of a call, the last
LoggedLast(logs, emits) == IF Len(emits) = 0 THEN logs ELSE Append(logs, emits[Len(emits)])

RECURSIVE Logged(_, _)
Logged(logs, emits) ==
  IF Len(emits) = 0 THEN logs ELSE Logged(Append(logs, emits[1]), Tail(emits))

ImportGuidance == <<"Could not import lam_qa_agent. Ensure the file exists alongside app.py.", "\n", "Install required packages in your environment: ", "\n", "  pip install anthropic playwright", "\n", "  python -m playwright install", "\n">>
InstallGuidance == <<"Please install dependencies: ", "\n", "  pip install anthropic playwright", "\n", "  python -m playwright install", "\n">>
NotSerializable == <<"Object of type set is not JSON serializable">>

\* mutant of RunHandler: the last except clause names a narrower class
RunHandlerNarrow == "RuntimeError"

\* the classes the three except clauses name (lines 251, 270, 279)
ImportHandler == "Exception"
DependencyHandler == "ModuleNotFoundError"
RunHandler == "Exception"

\* whether run_autopilot_qa is called at all
EngineInvoked(eng) == eng.kind # "load_fail"

\* the keyword arguments of the call
EngineArgs(fields) ==
  [ prd_text |-> fields.prd_text, url |-> fields.url, num_tests |-> fields.num_tests,
    headless |-> fields.headless, anthropic_api_key |-> fields.api_key ]

Returned(summary, results_json, logs) ==
  [raised |-> "", summary |-> summary, results_json |-> results_json, logs |-> logs]
\* an exception of class cls leaves run_pipeline
Propagated(cls) == [raised |-> cls, summary |-> <<>>, results_json |-> None, logs |-> <<>>]

\* what the second try block of run_pipeline does with an exception cls(msg)
RunFailure(cls, msg, logs) ==
  IF Catches(DependencyHandler, cls)
  THEN Returned(<<"**Dependency missing:** ">> \o msg \o <<".", "\n", "\n">> \o InstallGuidance,
                None, logs)
  ELSE IF Catches(RunHandler, cls)
  THEN Returned(<<"**Run failed:** ">> \o msg, None, logs)
  ELSE Propagated(cls)

\* (summary_md, results_json, logs), or the exception that leaves the function
run_pipeline(fields, eng) ==
  LET logs == IF EngineInvoked(eng) THEN Logged(<<>>, eng.emits) ELSE <<>>
  IN CASE eng.kind = "load_fail" ->
            IF Catches(ImportHandler, eng.cls)
            THEN Returned(<<"**Import error:** ">> \o eng.msg \o <<"\n", "\n">> \o ImportGuidance,
                          None, logs)
            ELSE Propagated(eng.cls)
       [] eng.kind = "return" /\ eng.results.ser ->
            Returned(eng.summary, Some(json_dumps(eng.results)), logs)
       [] eng.kind = "return" /\ ~eng.results.ser ->
            RunFailure("TypeError", NotSerializable, logs)
       [] eng.kind = "raise" -> RunFailure(eng.cls, eng.msg, logs)

----------------------------------------------------------------------------
(* AutoPilotQAHandler: the pieces of do_GET and do_POST *)

ServerState == [summary |-> LAST_SUMMARY_MD, results |-> LAST_RESULTS_JSON, logs |-> LAST_LOGS]
EmptyState == [summary |-> None, results |-> None, logs |-> <<>>]

\* mutant of ResultsBody: the stored result is escaped like the page's text
ResultsBodyEscaped(results) == html_escape(OrElse(results, <<"{", "}">>))

\* the body of GET /results.json
ResultsBody(results) == OrElse(results, <<"{", "}">>)

GetResultsResponse(req, results) ==
  [ req |-> req, status |-> 200, ctype |-> "application/json", page |-> None,
    data |-> Some(ResultsBody(results)) ]

\* _send_html(body, status)
SendHtml(req, body, status) ==
  [ req |-> req, status |-> status, ctype |-> "text/html", page |-> Some(body),
    data |-> None ]

GetPageResponse(req) == SendHtml(req, RenderDefaultPage, 200)

\* `str(fields["num_tests"]) if fields["num_tests"] else ""`
NumTestsEcho(num_tests) ==
  IF Len(num_tests) = 1 /\ num_tests[1] # 0 THEN IntToStr(num_tests[1]) ELSE <<>>

\* the summary and the logs a rejected POST passes to render_page:
\* `summary_md=LAST_SUMMARY_MD`, `logs=[]`
RejectedSummary(st) == st.summary

\* mutant of RejectedLogs: the rejected page shows the last run's log lines
RejectedLogsLeak(st) == Some(st.logs)

RejectedLogs(st) == Some(<<>>)

\* the except-branch of do_POST: parse_fields raised; st is ServerState
ParseErrorResponse(req, st) ==
  SendHtml(req,
    render_page(QsGet(req.qs, "url", <<<<>>>>)[1], QsGet(req.qs, "api_key", <<<<>>>>)[1],
                QsGet(req.qs, "num_tests", <<<<>>>>)[1], "headless" \in DOMAIN req.qs,
                QsGet(req.qs, "prd_text", <<<<>>>>)[1], Some(<<ParseErrorMessage>>),
                <<"Validation error">>, RejectedLogs(st), RejectedSummary(st)),
    400)

\* the `if validation:` branch of do_POST; st is ServerState
ValidationErrorResponse(req, fields, validation, st) ==
  SendHtml(req,
    render_page(fields.url, fields.api_key, NumTestsEcho(fields.num_tests), fields.headless,
                fields.prd_text, Some(validation), <<"Validation error">>, RejectedLogs(st),
                RejectedSummary(st)),
    400)

\* mutant of ValidationRejects: the validation errors are ignored
ValidationNeverRejects(validation) == FALSE

\* `if validation:`
ValidationRejects(validation) == Len(validation) > 0

\* mutant of StatusText: the label does not look at the result
StatusTextAlwaysCompleted(results_json) == <<"Completed">>

\* `"Completed" if results_json else "Completed with errors"`
StatusText(results_json) ==
  IF Len(results_json) = 1 /\ Len(results_json[1]) > 0
  THEN <<"Completed">> ELSE <<"Completed with errors">>

\* the page and status of a POST that ran the pipeline
CompletedResponse(req, fields, out) ==
  SendHtml(req,
    render_page(fields.url, fields.api_key, NumTestsEcho(fields.num_tests), fields.headless,
                fields.prd_text, None, StatusText(out.results_json), Some(out.logs),
                Some(out.summary)),
    200)

\* ServerState as the three assignments of lines 346-348 leave it
Stored(out) == [summary |-> Some(out.summary), results |-> out.results_json, logs |-> out.logs]

----------------------------------------------------------------------------
(* Requests *)

Keys == {"url", "api_key", "num_tests", "headless", "prd_text"}

\* per key, the list of values parse_qs gives it; the empty list: the key is absent
\* (parse_qs drops blank values, so no value is the empty string)
UrlChoices == {<<>>, <<<<" ", "u">>>>}
ApiKeyChoices == {<<>>, <<<<"k">>, <<"j">>>>}
PrdChoices == {<<<<" ">>>>, <<<<"<", "p", ">">>>>}
NumTestsChoices ==
  {<<>>, <<<<" ">>>>, <<<<" ", "1", "2">>>>, <<<<"0">>>>, <<<<"z">>>>}
HeadlessChoices == {<<>>, <<<<"o", "n">>>>, <<<<"o", "f", "f">>>>}

MkQs(u, k, n, h, p) ==
  LET ch == [x \in Keys |->
               CASE x = "url" -> u [] x = "api_key" -> k [] x = "num_tests" -> n
                 [] x = "headless" -> h [] x = "prd_text" -> p]
  IN [x \in {y \in Keys : Len(ch[y]) > 0} |-> ch[x]]

QsInputs ==
  {MkQs(u, k, n, h, p) : u \in UrlChoices, k \in ApiKeyChoices, n \in NumTestsChoices,
                         h \in HeadlessChoices, p \in PrdChoices}

PagePaths == {"/", "/run"}
GetRequest(path) == [method |-> "GET", path |-> path, qs |-> <<>>]
PostRequest(qs) == [method |-> "POST", path |-> "/run", qs |-> qs]

----------------------------------------------------------------------------
(* The server: HTTPServer.serve_forever with AutoPilotQAHandler *)

\* mutant of ServerFree: a ThreadingHTTPServer, requests are handled concurrently
ServerAlwaysFree == TRUE

\* HTTPServer handles one request at a time: the next one is accepted when the
\* handler of the previous one has returned
ServerFree == pc = "idle"

\* what a request reading ServerState finds, with the outcomes before and after
\* the store in progress (the same when none is)
Snapshot ==
  [ state |-> ServerState,
    old |-> IF Len(cur) = 1 THEN cur[1].prev ELSE ServerState,
    new |-> IF Len(cur) = 1 /\ Len(cur[1].out) = 1 THEN Stored(cur[1].out[1])
            ELSE IF Len(cur) = 1 THEN cur[1].prev ELSE ServerState ]

NoCalls == [pipeline |-> 0, engine |-> 0]

\* an exception left do_POST: socketserver's handle_error logs it and closes the
\* connection; nothing is sent
NoResponse(req) == [req |-> req, status |-> 0, ctype |-> "", page |-> None, data |-> None]

TwinIdle == twin = None
MainIdle == env = None /\ mpc = "serving" /\ exitCode = None /\ events = <<>>
BridgeIdle == bridge = None
FnIdle == fn = None

ServerInit ==
  /\ LAST_RESULTS_JSON = None
  /\ LAST_SUMMARY_MD = None
  /\ LAST_LOGS = <<>>
  /\ pc = "idle"
  /\ cur = None
  /\ resp = None
  /\ calls = NoCalls
  /\ lastRun = EmptyState
  /\ everSuccess = FALSE
  /\ seen = None

globals == <<LAST_RESULTS_JSON, LAST_SUMMARY_MD, LAST_LOGS>>
history == <<lastRun, everSuccess>>

\* do_GET, path /results.json
GetResults ==
  /\ ServerFree
  /\ resp' = Some(GetResultsResponse(GetRequest("/results.json"), LAST_RESULTS_JSON))
  /\ seen' = Some(Snapshot)
  /\ calls' = NoCalls
  /\ UNCHANGED <<globals, pc, cur, history>>

\* do_GET, any other path
GetPage(path) ==
  /\ ServerFree
  /\ resp' = Some(GetPageResponse(GetRequest(path)))
  /\ seen' = None
  /\ calls' = NoCalls
  /\ UNCHANGED <<globals, pc, cur, history>>

\* do_POST, parse_fields raises
PostParseError(qs) ==
  /\ ServerFree
  /\ ParseFails(qs)
  /\ resp' = Some(ParseErrorResponse(PostRequest(qs), ServerState))
  /\ seen' = Some(Snapshot)
  /\ calls' = NoCalls
  /\ UNCHANGED <<globals, pc, cur, history>>

\* do_POST, validate_fields returns errors
PostValidationError(qs) ==
  /\ ServerFree
  /\ ~ParseFails(qs)
  /\ ValidationRejects(validate_fields(parse_fields(qs)))
  /\ resp' = Some(ValidationErrorResponse(PostRequest(qs), parse_fields(qs),
                     validate_fields(parse_fields(qs)), ServerState))
  /\ seen' = Some(Snapshot)
  /\ calls' = NoCalls
  /\ UNCHANGED <<globals, pc, cur, history>>

\* do_POST, parsed and validated: about to call run_pipeline
PostAccepted(qs) ==
  /\ ServerFree
  /\ pc = "idle"
  /\ ~ParseFails(qs)
  /\ ~ValidationRejects(validate_fields(parse_fields(qs)))
  /\ pc' = "run"
  /\ cur' = Some([req |-> PostRequest(qs), fields |-> parse_fields(qs),
                   prev |-> ServerState, out |-> None])
  /\ resp' = None
  /\ seen' = None
  /\ calls' = NoCalls
  /\ UNCHANGED <<globals, history>>

\* mutant of PostRunPipeline: a run without a result is tried a second time
PostRunPipelineRetry(eng) ==
  LET out == run_pipeline(cur[1].fields, eng)
      again == IsNone(out.results_json) /\ calls.pipeline = 0
  IN
  /\ pc = "run"
  /\ calls' = [pipeline |-> calls.pipeline + 1,
               engine |-> calls.engine + (IF EngineInvoked(eng) THEN 1 ELSE 0)]
  /\ cur' = IF again THEN cur ELSE Some([cur[1] EXCEPT !.out = Some(out)])
  /\ lastRun' = IF again THEN lastRun ELSE Stored(out)
  /\ pc' = IF again THEN "run" ELSE "store_summary"
  /\ UNCHANGED <<globals, resp, everSuccess, seen>>

\* line 345: summary_md, results_json, logs = run_pipeline(fields)
PostRunPipeline(eng) ==
  LET out == run_pipeline(cur[1].fields, eng) IN
  /\ pc = "run"
  /\ calls' = [pipeline |-> calls.pipeline + 1,
               engine |-> calls.engine + (IF EngineInvoked(eng) THEN 1 ELSE 0)]
  /\ IF out.raised = ""
     THEN /\ cur' = Some([cur[1] EXCEPT !.out = Some(out)])
          /\ lastRun' = Stored(out)
          /\ pc' = "store_summary"
          /\ resp' = resp
     ELSE /\ cur' = None
          /\ lastRun' = lastRun
          /\ pc' = "idle"
          /\ resp' = Some(NoResponse(cur[1].req))
  /\ UNCHANGED <<globals, everSuccess, seen>>

\* line 346: LAST_SUMMARY_MD = summary_md
PostStoreSummary ==
  /\ pc = "store_summary"
  /\ LAST_SUMMARY_MD' = Some(cur[1].out[1].summary)
  /\ pc' = "store_results"
  /\ UNCHANGED <<LAST_RESULTS_JSON, LAST_LOGS, cur, resp, calls, history, seen>>

\* mutant of PostStoreResults: a failed run keeps the last good result
PostStoreResultsKeepGood ==
  /\ pc = "store_results"
  /\ LAST_RESULTS_JSON' = (IF Len(cur[1].out[1].results_json) = 1
                            THEN cur[1].out[1].results_json ELSE LAST_RESULTS_JSON)
  /\ pc' = "store_logs"
  /\ UNCHANGED <<LAST_SUMMARY_MD, LAST_LOGS, cur, resp, calls, history, seen>>

\* line 347: LAST_RESULTS_JSON = results_json
PostStoreResults ==
  /\ pc = "store_results"
  /\ LAST_RESULTS_JSON' = cur[1].out[1].results_json
  /\ pc' = "store_logs"
  /\ UNCHANGED <<LAST_SUMMARY_MD, LAST_LOGS, cur, resp, calls, history, seen>>

\* mutant of PostStoreLogs: the page is sent before the log lines are stored
PostStoreLogsSkipped ==
  /\ pc = "store_logs"
  /\ pc' = "render"
  /\ UNCHANGED <<globals, cur, resp, calls, history, seen>>

\* line 348: LAST_LOGS = logs
PostStoreLogs ==
  /\ pc = "store_logs"
  /\ LAST_LOGS' = cur[1].out[1].logs
  /\ pc' = "render"
  /\ UNCHANGED <<LAST_SUMMARY_MD, LAST_RESULTS_JSON, cur, resp, calls, history, seen>>

\* lines 350-362: render the page and send it
PostRespond ==
  /\ pc = "render"
  /\ resp' = Some(CompletedResponse(cur[1].req, cur[1].fields, cur[1].out[1]))
  /\ everSuccess' = (everSuccess \/ Len(cur[1].out[1].results_json) = 1)
  /\ pc' = "idle"
  /\ cur' = None
  /\ UNCHANGED <<globals, calls, lastRun, seen>>

ServerNext ==
  \/ GetResults
  \/ \E path \in PagePaths : GetPage(path)
  \/ \E qs \in QsInputs : PostParseError(qs)
  \/ \E qs \in QsInputs : PostValidationError(qs)
  \/ \E qs \in QsInputs : PostAccepted(qs)
  \/ \E eng \in EngineBehaviours : PostRunPipeline(eng)
  \/ PostStoreSummary
  \/ PostStoreResults
  \/ PostStoreLogs
  \/ PostRespond

Init == ServerInit /\ TwinIdle /\ MainIdle /\ BridgeIdle /\ FnIdle
Next == ServerNext /\ UNCHANGED <<twin, mainVars, bridge, fn>>
Spec == Init /\ [][Next]_vars

----------------------------------------------------------------------------
(* Two servers given the same requests.  A handler as a function of the    *)
(* request, ServerState and what the engine does: the new ServerState and  *)
(* the response.                                                           *)

do_GET(req, st) ==
  IF req.path = "/results.json"
  THEN [state |-> st, resp |-> Some(GetResultsResponse(req, st.results))]
  ELSE [state |-> st, resp |-> Some(GetPageResponse(req))]

do_POST(req, st, eng) ==
  IF ParseFails(req.qs)
  THEN [state |-> st, resp |-> Some(ParseErrorResponse(req, st))]
  ELSE LET fields == parse_fields(req.qs)
           validation == validate_fields(fields)
           out == run_pipeline(fields, eng)
       IN IF ValidationRejects(validation)
          THEN [state |-> st, resp |-> Some(ValidationErrorResponse(req, fields, validation, st))]
          ELSE IF out.raised # ""
          THEN [state |-> st, resp |-> Some(NoResponse(req))]
          ELSE [state |-> Stored(out), resp |-> Some(CompletedResponse(req, fields, out))]

\* the engine emits MaxLogs messages when it is called
TwinBehaviours == Behaviours({[i \in 1..MaxLogs |-> <<"step ", DigitTok(i)>>]})
TwinQs ==
  {MkQs(u, <<<<"k">>>>, n, <<>>, <<<<"<", "p", ">">>>>) :
     u \in UrlChoices, n \in {<<>>, <<<<"z">>>>, <<<<" ", "1", "2">>>>}}

TwinInit ==
  twin = Some([a |-> [state |-> EmptyState, resp |-> None],
               b |-> [state |-> EmptyState, resp |-> None]])

\* both servers handle a GET
TwinGet(path) ==
  twin' = Some([a |-> do_GET(GetRequest(path), twin[1].a.state),
                b |-> do_GET(GetRequest(path), twin[1].b.state)])

\* whether do_POST reaches run_pipeline
ReachesPipeline(qs) ==
  IF ParseFails(qs) THEN FALSE ELSE ~ValidationRejects(validate_fields(parse_fields(qs)))

\* both servers handle the same POST, which never reaches the engine
TwinPostRejected(qs) ==
  /\ ~ReachesPipeline(qs)
  /\ twin' = Some([a |-> do_POST(PostRequest(qs), twin[1].a.state, CHOOSE e \in TwinBehaviours : TRUE),
                   b |-> do_POST(PostRequest(qs), twin[1].b.state, CHOOSE e \in TwinBehaviours : TRUE)])

\* both servers handle the same POST; the engine of each does what it does
TwinPostAccepted(qs, engA, engB) ==
  /\ ReachesPipeline(qs)
  /\ twin' = Some([a |-> do_POST(PostRequest(qs), twin[1].a.state, engA),
                   b |-> do_POST(PostRequest(qs), twin[1].b.state, engB)])

TwinNext ==
  \/ \E path \in PagePaths \cup {"/results.json"} : TwinGet(path)
  \/ \E qs \in TwinQs : TwinPostRejected(qs)
  \/ \E qs \in TwinQs, engA \in TwinBehaviours, engB \in TwinBehaviours :
        TwinPostAccepted(qs, engA, engB)

ServerIdle == ServerInit

InitTwin == TwinInit /\ ServerIdle /\ MainIdle /\ BridgeIdle /\ FnIdle
NextTwin == TwinNext /\ UNCHANGED <<serverVars, mainVars, bridge, fn>>
SpecTwin == InitTwin /\ [][NextTwin]_vars

----------------------------------------------------------------------------
(* One call of run_pipeline, on any validated fields and any engine *)

BridgeLogMsgs == {<<"a">>, <<"<", "b", ">">>}
BridgeLogSeqs == UNION {[1..k -> BridgeLogMsgs] : k \in 0..(MaxLogs + 1)}
BridgeBehaviours ==
  Behaviours(BridgeLogSeqs)
  \cup {[kind |-> "load_fail", cls |-> "ImportError",
          msg |-> <<"cannot import name run_autopilot_qa">>, emits |-> <<>>,
          summary |-> <<>>, results |-> NoResults]}
  \cup {[kind |-> "raise", cls |-> "ValueError", msg |-> <<>>, emits |-> l,
          summary |-> <<>>, results |-> NoResults] : l \in BridgeLogSeqs}

\* the fields of the POST bodies that pass parsing and validation
BridgeFields ==
  {parse_fields(qs) : qs \in {q \in QsInputs : ReachesPipeline(q)}}

BridgeInit ==
  bridge \in {Some([fields |-> f, eng |-> e, out |-> None, before |-> None]) :
                f \in BridgeFields, e \in BridgeBehaviours}

\* run_pipeline(fields) is called and returns, or raises
BridgeRun ==
  /\ Len(bridge[1].out) = 0
  /\ bridge' = Some([bridge[1] EXCEPT !.out = Some(run_pipeline(bridge[1].fields, bridge[1].eng))])

\* a later call of run_pipeline, in the same process; before: the log lines
\* the call before it returned
BridgeRunAgain(f, e) ==
  /\ Len(bridge[1].out) = 1
  /\ bridge[1].out[1].raised = ""
  /\ bridge' = Some([fields |-> f, eng |-> e, out |-> None,
                     before |-> Some(bridge[1].out[1].logs)])

BridgeNext ==
  \/ BridgeRun
  \/ \E f \in BridgeFields, e \in BridgeBehaviours : BridgeRunAgain(f, e)

InitBridge == BridgeInit /\ ServerIdle /\ TwinIdle /\ MainIdle /\ FnIdle
NextBridge == BridgeNext /\ UNCHANGED <<serverVars, twin, mainVars, fn>>
SpecBridge == InitBridge /\ [][NextBridge]_vars

----------------------------------------------------------------------------
(* The process: main(), run_once_from_env(), write_static_ui(), FormTests *)

\* os.environ.get(name, default)
EnvGet(e, name, default) == IF Len(e.vars[name]) = 1 THEN e.vars[name][1] ELSE default

\* lines 53-55
UI_OUT(e) == EnvGet(e, "APQA_UI_OUT", <<"/", "mnt", "/", "data", "/", "autopilot_qa_ui.html">>)
REPORT_HTML(e) ==
  EnvGet(e, "APQA_REPORT_HTML", <<"/", "mnt", "/", "data", "/", "autopilot_qa_report.html">>)
RESULTS_JSON(e) ==
  EnvGet(e, "APQA_RESULTS_JSON", <<"/", "mnt", "/", "data", "/", "autopilot_qa_results.json">>)

\* os.path.dirname(path)
dirname(path) ==
  LET slashes == {i \in 1..Len(path) : path[i] = "/"}
      last == IF slashes = {} THEN 0 ELSE CHOOSE i \in slashes : \A j \in slashes : j <= i
      head == SubSeq(path, 1, last)
      RECURSIVE rstripSep(_)
      rstripSep(h) ==
        IF Len(h) > 0 /\ h[Len(h)] = "/" THEN rstripSep(SubSeq(h, 1, Len(h) - 1)) ELSE h
  IN IF Len(head) > 0 /\ \E i \in 1..Len(head) : head[i] # "/" THEN rstripSep(head) ELSE head

\* the exception os.makedirs(name, exist_ok=True) raises, "" when it raises none:
\* the empty name is no directory and cannot be made
makedirs(name) == IF Len(name) = 0 THEN "FileNotFoundError" ELSE ""

\* what the process did: an entry of events
Ev(what, path, content, info) == [what |-> what, path |-> path, content |-> content, info |-> info]
NoInfo == [num_tests |-> None, results |-> FALSE, engine |-> FALSE]

\* what HTTPServer((HOST, PORT), AutoPilotQAHandler) does on this platform
EOPNOTSUPP == 95
ListenOutcomes ==
  { [cls |-> "", errno |-> 0, msg |-> <<>>],
    [cls |-> "OSError", errno |-> EOPNOTSUPP, msg |-> <<"[Errno 95] ", "Operation not supported">>],
    [cls |-> "OSError", errno |-> 138, msg |-> <<"[Errno 138] ", "Not supported">>],
    [cls |-> "OSError", errno |-> 0, msg |-> <<"Not supported">>],
    [cls |-> "OSError", errno |-> 98, msg |-> <<"[Errno 98] ", "Address already in use">>],
    [cls |-> "OverflowError", errno |-> 0, msg |-> <<"bind(): port must be 0-65535.">>] }

\* line 454
NotSupported(err) ==
  IF err.errno \in {EOPNOTSUPP, 138} THEN TRUE
  ELSE \E i \in 1..Len(err.msg) : err.msg[i] = "Not supported"

\* write_static_ui(path): the exception it raises ("" for none) and the file it writes
StaticInfo == <<"Networking is not available in this environment. This static page mirrors the UI layout.", "\n", "\n", "To execute a single run without a server, set environment variables and re-run:", "\n", "\n", "APQA_URL, APQA_API_KEY, APQA_PRD_TEXT, optional APQA_NUM_TESTS, APQA_HEADLESS=0/1, APQA_RUN_ONCE=1", "\n">>

StaticPage ==
  render_page(<<>>, <<>>, <<>>, TRUE, <<>>, Some(<<StaticInfo>>), <<"Offline fallback page">>,
              Some(<<<<"Server disabled: wrote static UI.">>>>),
              Some(<<"(no summary ", "-", " run once via env vars to generate a report)">>))

write_static_ui(path) ==
  IF makedirs(dirname(path)) # ""
  THEN [raised |-> makedirs(dirname(path)), events |-> <<>>]
  ELSE [raised |-> "", events |-> <<Ev("static", path, <<StaticPage>>, NoInfo)>>]

HeadlessEnvTruthy == {<<"1">>, <<"t", "r", "u", "e">>, <<"o", "n">>, <<"T", "r", "u", "e">>}

\* mutant of RunOnceRequested: the one-shot trigger is not looked at
RunOnceNever(e) == FALSE

\* line 391
RunOnceRequested(e) == EnvGet(e, "APQA_RUN_ONCE", <<>>) = <<"1">>

\* lines 394-406: the fields of the one-shot run
EnvFields(e) ==
  LET nt == strip(EnvGet(e, "APQA_NUM_TESTS", <<>>))
  IN [ url |-> strip(EnvGet(e, "APQA_URL", <<>>)),
       api_key |-> strip(EnvGet(e, "APQA_API_KEY", <<>>)),
       prd_text |-> strip(EnvGet(e, "APQA_PRD_TEXT", <<>>)),
       headless |-> EnvGet(e, "APQA_HEADLESS", <<"1">>) \in HeadlessEnvTruthy,
       num_tests |-> IF Len(nt) = 0 THEN None
                     ELSE IF IsIntLiteral(nt) THEN Some(IntValue(nt))
                     ELSE None ]

\* run_once_from_env(): the exit code it returns (None: not configured), the
\* exception that leaves it ("" for none) and what it did
run_once_from_env(e, eng) ==
  LET fields == EnvFields(e)
      out == run_pipeline(fields, eng)
      ran == <<Ev("pipeline", <<>>, <<>>,
                  [num_tests |-> fields.num_tests, results |-> Len(out.results_json) = 1,
                   engine |-> EngineInvoked(eng)])>>
      report == <<Ev("report", REPORT_HTML(e), <<"<pre>">> \o html_escape(out.summary) \o <<"</pre>">>, NoInfo)>>
      results == IF Len(out.results_json) = 1 /\ Len(out.results_json[1]) > 0
                 THEN <<Ev("results", RESULTS_JSON(e), out.results_json[1], NoInfo)>>
                 ELSE <<>>
  IN IF ~RunOnceRequested(e) THEN [rc |-> None, raised |-> "", events |-> <<>>]
     ELSE IF Len(validate_fields(fields)) > 0 THEN [rc |-> Some(2), raised |-> "", events |-> <<>>]
     ELSE IF out.raised # "" THEN [rc |-> None, raised |-> out.raised, events |-> ran]
     ELSE IF makedirs(dirname(REPORT_HTML(e))) # ""
     THEN [rc |-> None, raised |-> makedirs(dirname(REPORT_HTML(e))), events |-> ran]
     ELSE [rc |-> Some(0), raised |-> "", events |-> ran \o report \o results]

\* FormTests, run on parse_fields and validate_fields
TestQs(nt, hl) ==
  LET ch == [x \in Keys |->
               CASE x = "url" -> <<<<"https://example.com">>>>
                 [] x = "api_key" -> <<<<"key">>>>
                 [] x = "prd_text" -> <<<<"p">>>>
                 [] x = "num_tests" -> nt
                 [] x = "headless" -> hl]
  IN [x \in {y \in Keys : Len(ch[y]) > 0} |-> ch[x]]

test_parse_fields_ok_blank_tests ==
  LET qs == TestQs(<<<<>>>>, <<<<"o", "n">>>>) IN
  IF ParseFails(qs) THEN FALSE
  ELSE /\ parse_fields(qs).url = <<"https://example.com">>
       /\ parse_fields(qs).api_key = <<"key">>
       /\ parse_fields(qs).num_tests = None
       /\ parse_fields(qs).headless
       /\ parse_fields(qs).prd_text = <<"p">>

test_parse_fields_bad_num_tests == ParseFails(TestQs(<<<<"z", "e", "r", "o">>>>, <<>>))

test_validate_fields ==
  LET errs == validate_fields([url |-> <<>>, api_key |-> <<>>, prd_text |-> <<>>])
      In(m) == \E i \in 1..Len(errs) : errs[i] = m
  IN /\ In(<<"Anthropic API Key is required.">>)
     /\ In(<<"Application URL is required.">>)
     /\ In(<<"PRD text is required.">>)

test_headless_checkbox_absent_defaults_false ==
  IF ParseFails(TestQs(<<>>, <<>>)) THEN FALSE ELSE ~parse_fields(TestQs(<<>>, <<>>)).headless

test_num_tests_positive ==
  IF ParseFails(TestQs(<<<<"5">>>>, <<>>)) THEN FALSE
  ELSE parse_fields(TestQs(<<<<"5">>>>, <<>>)).num_tests = Some(5)

test_validate_fields_ok ==
  validate_fields([url |-> <<"https://x">>, api_key |-> <<"k">>, prd_text |-> <<"p">>]) = <<>>

\* result.wasSuccessful()
wasSuccessful ==
  /\ test_parse_fields_ok_blank_tests
  /\ test_parse_fields_bad_num_tests
  /\ test_validate_fields
  /\ test_headless_checkbox_absent_defaults_false
  /\ test_num_tests_positive
  /\ test_validate_fields_ok

\* the environments of the model
EnvChoices(name) ==
  CASE name = "RUN_TESTS" -> {None, Some(<<"1">>)}
    [] name = "APQA_RUN_ONCE" -> {None, Some(<<"1">>)}
    [] name = "APQA_URL" -> {None, Some(<<" ", "u">>)}
    [] name = "APQA_API_KEY" -> {None, Some(<<"k">>)}
    [] name = "APQA_PRD_TEXT" -> {Some(<<" ">>), Some(<<"<", "p", ">">>)}
    [] name = "APQA_NUM_TESTS" -> {None, Some(<<"1", "2">>), Some(<<"0">>), Some(<<"z">>)}
    [] name = "APQA_HEADLESS" -> {None, Some(<<"0">>)}
    [] name = "APQA_UI_OUT" -> {None, Some(<<"ui.html">>)}
    [] name = "APQA_REPORT_HTML" -> {None, Some(<<"out", "/", "report.html">>), Some(<<"report.html">>)}
    [] name = "APQA_RESULTS_JSON" -> {None, Some(<<"results.json">>)}

Environments ==
  {[vars |-> [RUN_TESTS |-> rt, APQA_RUN_ONCE |-> ro, APQA_URL |-> u, APQA_API_KEY |-> k,
              APQA_PRD_TEXT |-> p, APQA_NUM_TESTS |-> n, APQA_HEADLESS |-> h,
              APQA_UI_OUT |-> ui, APQA_REPORT_HTML |-> rep, APQA_RESULTS_JSON |-> res],
    listen |-> l] :
     rt \in EnvChoices("RUN_TESTS"), ro \in EnvChoices("APQA_RUN_ONCE"),
     u \in EnvChoices("APQA_URL"), k \in EnvChoices("APQA_API_KEY"),
     p \in EnvChoices("APQA_PRD_TEXT"), n \in EnvChoices("APQA_NUM_TESTS"),
     h \in EnvChoices("APQA_HEADLESS"), ui \in EnvChoices("APQA_UI_OUT"),
     rep \in EnvChoices("APQA_REPORT_HTML"), res \in EnvChoices("APQA_RESULTS_JSON"),
     l \in ListenOutcomes}

\* the process ends: sys.exit(code), or an uncaught exception (exit code 1)
\* mutant of Exit: every exit reports success
ExitAlwaysZero(code) == Some([code |-> 0, uncaught |-> ""])
Exit(code) == Some([code |-> code, uncaught |-> ""])
Crash(cls) == Some([code |-> 1, uncaught |-> cls])

MainInit ==
  /\ env \in {Some(e) : e \in Environments}
  /\ mpc = "start"
  /\ exitCode = None
  /\ events = <<>>

\* mutant of SelfTestRequested: the self-test trigger is not looked at
SelfTestNever(e) == FALSE

\* line 430
SelfTestRequested(e) == EnvGet(e, "RUN_TESTS", <<>>) = <<"1">>

\* lines 430-434: RUN_TESTS=1
MainSelfTest ==
  /\ mpc = "start"
  /\ SelfTestRequested(env[1])
  /\ events' = Append(events, Ev("tests", <<>>, <<>>, NoInfo))
  /\ exitCode' = Exit(IF wasSuccessful THEN 0 ELSE 1)
  /\ mpc' = "exited"
  /\ env' = env

\* lines 436-439: rc = run_once_from_env(); if rc is not None: sys.exit(rc)
MainRunOnce(eng) ==
  LET r == run_once_from_env(env[1], eng) IN
  /\ mpc = "start"
  /\ ~SelfTestRequested(env[1])
  /\ events' = events \o r.events
  /\ IF r.raised # "" THEN exitCode' = Crash(r.raised) /\ mpc' = "exited"
     ELSE IF Len(r.rc) = 1 THEN exitCode' = Exit(r.rc[1]) /\ mpc' = "exited"
     ELSE exitCode' = None /\ mpc' = "listen"
  /\ env' = env

\* lines 442-461: HTTPServer(...), and the except OSError clause
MainListen ==
  LET err == env[1].listen
      w == write_static_ui(UI_OUT(env[1]))
      tried == Append(events, Ev("listen", <<>>, err.msg, NoInfo))
  IN
  /\ mpc = "listen"
  /\ IF err.cls = ""
     THEN events' = tried /\ exitCode' = None /\ mpc' = "serving"
     ELSE IF ~Catches("OSError", err.cls)
     THEN events' = tried /\ exitCode' = Crash(err.cls) /\ mpc' = "exited"
     ELSE IF ~NotSupported(err)
     THEN events' = tried /\ exitCode' = Crash(err.cls) /\ mpc' = "exited"
     ELSE IF w.raised # ""
     THEN events' = tried /\ exitCode' = Crash(w.raised) /\ mpc' = "exited"
     ELSE events' = tried \o w.events /\ exitCode' = Exit(0) /\ mpc' = "exited"
  /\ env' = env

\* lines 446-451: serve_forever() until KeyboardInterrupt, server_close(), main returns
MainShutdown ==
  /\ mpc = "serving"
  /\ events' = Append(events, Ev("shutdown", <<>>, <<>>, NoInfo))
  /\ exitCode' = Exit(0)
  /\ mpc' = "exited"
  /\ env' = env

MainNext ==
  \/ MainSelfTest
  \/ \E eng \in TwinBehaviours : MainRunOnce(eng)
  \/ MainListen
  \/ MainShutdown

InitMain == MainInit /\ ServerIdle /\ TwinIdle /\ BridgeIdle /\ FnIdle
NextMain == MainNext /\ UNCHANGED <<serverVars, twin, bridge, fn>>
SpecMain == InitMain /\ [][NextMain]_vars

----------------------------------------------------------------------------
(* validate_fields applied to field dictionaries *)

\* the values a text field may hold when validate_fields is called
ValidateTexts == {<<>>, <<"x">>, <<" ">>}
ValidateCounts == {None, Some(1), Some(5)}
ValidateInputs ==
  {[url |-> u, api_key |-> k, prd_text |-> p, num_tests |-> n, headless |-> h] :
     u \in ValidateTexts, k \in ValidateTexts, p \in ValidateTexts,
     n \in ValidateCounts, h \in BOOLEAN}

ValidateInit == fn \in {Some([fields |-> f, errs |-> None]) : f \in ValidateInputs}

\* errs = validate_fields(fields)
ValidateCall ==
  /\ Len(fn[1].errs) = 0
  /\ fn' = Some([fn[1] EXCEPT !.errs = Some(validate_fields(fn[1].fields))])

InitValidate == ValidateInit /\ ServerIdle /\ TwinIdle /\ MainIdle /\ BridgeIdle
NextValidate == ValidateCall /\ UNCHANGED <<serverVars, twin, mainVars, bridge>>
SpecValidate == InitValidate /\ [][NextValidate]_vars

----------------------------------------------------------------------------
(* parse_fields applied to query dictionaries *)

\* the value lists of num_tests and of headless (the empty list: key absent)
ParseNumTests ==
  { <<>>, << <<>> >>, << <<" ">> >>, << <<" ", "\t", "\n">> >>,
    << <<"5">> >>, << <<" ", "1", "2", " ">> >>, << <<"+", "3">> >>, << <<"0", "7">> >>,
    << <<"1", "_", "0">> >>, << <<"0">> >>, << <<"-", "2">> >>, << <<"-", "0">> >>,
    << <<"z">> >>, << <<"1", ".", "5">> >>, << <<"1", " ", "2">> >>, << <<"+">> >>,
    << <<"4">>, <<"z">> >>, << <<"z">>, <<"4">> >> }
ParseHeadlessValues ==
  { <<>>, << <<"o", "n">> >>, << <<"t", "r", "u", "e">> >>, << <<"1">> >>,
    << <<>> >>, << <<"o", "f", "f">> >>, << <<"O", "N">> >>, << <<"T", "r", "u", "e">> >>,
    << <<"0">> >>, << <<" ", "o", "n">> >>, << <<"o", "f", "f">>, <<"o", "n">> >>,
    << <<"o", "n">>, <<"o", "f", "f">> >> }
ParseInputs ==
  {MkQs(<<<<"u">>>>, <<<<"k">>>>, n, h, <<<<"p">>>>) : n \in ParseNumTests, h \in ParseHeadlessValues}

\* what a call of parse_fields gives: the dictionary, or the ValueError
ParseResult(qs) ==
  IF ParseFails(qs)
  THEN [raised |-> "ValueError", msg |-> ParseErrorMessage, fields |-> None]
  ELSE [raised |-> "", msg |-> <<>>, fields |-> Some(parse_fields(qs))]

ParseInit == fn \in {Some([qs |-> q, out |-> None]) : q \in ParseInputs}

\* fields = parse_fields(qs)
ParseCall ==
  /\ Len(fn[1].out) = 0
  /\ fn' = Some([fn[1] EXCEPT !.out = Some(ParseResult(fn[1].qs))])

InitParse == ParseInit /\ ServerIdle /\ TwinIdle /\ MainIdle /\ BridgeIdle
NextParse == ParseCall /\ UNCHANGED <<serverVars, twin, mainVars, bridge>>
SpecParse == InitParse /\ [][NextParse]_vars

----------------------------------------------------------------------------
(* render_page applied twice to a context, in a server handling requests *)

\* the arguments of a call of render_page
RenderContexts ==
  { [url |-> <<>>, api_key |-> <<>>, num_tests |-> <<"3">>, headless |-> TRUE, prd_text |-> <<>>,
     validation |-> None, status |-> <<"Idle">>, logs |-> None, summary_md |-> None],
    [url |-> <<"u">>, api_key |-> <<>>, num_tests |-> <<>>, headless |-> FALSE,
     prd_text |-> <<"<", "p", ">">>,
     validation |-> Some(<<<<"Anthropic API Key is required.">>>>),
     status |-> <<"Validation error">>, logs |-> Some(<<>>), summary_md |-> None],
    [url |-> <<"u">>, api_key |-> <<"k">>, num_tests |-> <<"z">>, headless |-> FALSE,
     prd_text |-> <<"p">>, validation |-> Some(<<ParseErrorMessage>>),
     status |-> <<"Validation error">>, logs |-> Some(<<>>),
     summary_md |-> Some(<<"**Run failed:** ", "boom ", "<", "!", ">">>)],
    [url |-> <<"u">>, api_key |-> <<"k">>, num_tests |-> <<"1", "2">>, headless |-> TRUE,
     prd_text |-> <<"p", "&">>, validation |-> None, status |-> <<"Completed">>,
     logs |-> Some(<<<<"step ", "1">>, <<"<", "b", ">">>>>), summary_md |-> Some(<<"ok">>)],
    [url |-> <<"'", "u">>, api_key |-> <<"k">>, num_tests |-> <<>>, headless |-> TRUE,
     prd_text |-> <<"p">>, validation |-> None, status |-> <<"Completed with errors">>,
     logs |-> Some(<<>>), summary_md |-> Some(<<>>)] }

RenderContext(ctx) ==
  render_page(ctx.url, ctx.api_key, ctx.num_tests, ctx.headless, ctx.prd_text,
              ctx.validation, ctx.status, ctx.logs, ctx.summary_md)

\* a request is handled: ServerState after do_GET or do_POST
RenderRequest(r) ==
  /\ LAST_SUMMARY_MD' = r.state.summary
  /\ LAST_RESULTS_JSON' = r.state.results
  /\ LAST_LOGS' = r.state.logs
  /\ UNCHANGED <<pc, cur, resp, calls, history, seen, fn>>

RenderGet(path) == RenderRequest(do_GET(GetRequest(path), ServerState))
RenderPost(qs, eng) == RenderRequest(do_POST(PostRequest(qs), ServerState, eng))

\* render_page(**ctx), a first time; at: ServerState at that call
RenderFirst(ctx) ==
  /\ fn = None
  /\ fn' = Some([ctx |-> ctx, at |-> ServerState, first |-> RenderContext(ctx), again |-> None])
  /\ UNCHANGED serverVars

\* render_page(**ctx), the same arguments a second time
RenderAgain ==
  /\ Len(fn) = 1
  /\ Len(fn[1].again) = 0
  /\ fn' = Some([fn[1] EXCEPT !.again = Some(RenderContext(fn[1].ctx))])
  /\ UNCHANGED serverVars

RenderNext ==
  \/ \E path \in PagePaths \cup {"/results.json"} : RenderGet(path)
  \/ \E qs \in TwinQs, eng \in TwinBehaviours : RenderPost(qs, eng)
  \/ \E ctx \in RenderContexts : RenderFirst(ctx)
  \/ RenderAgain

InitRender == ServerInit /\ FnIdle /\ TwinIdle /\ MainIdle /\ BridgeIdle
NextRender == RenderNext /\ UNCHANGED <<twin, mainVars, bridge>>
SpecRender == InitRender /\ [][NextRender]_vars

----------------------------------------------------------------------------
(* Claims about the server *)

\* the request of the most recent response
Answered == Len(resp) = 1
IsPost == Answered /\ resp[1].req.method = "POST"
IsGetResults == Answered /\ resp[1].req.method = "GET" /\ resp[1].req.path = "/results.json"
IsGetPage == Answered /\ resp[1].req.method = "GET" /\ resp[1].req.path # "/results.json"

\* a POST body the handler must reject: parse_fields fails on the test count, or
\* one of the three required fields is empty after trimming
MustReject(qs) ==
  IF ParseFails(qs) THEN TRUE
  ELSE \/ strip(GetField(qs, "api_key")) = <<>>
       \/ strip(GetField(qs, "url")) = <<>>
       \/ strip(GetField(qs, "prd_text")) = <<>>

\* the status label of a rendered page
StatusLabel(page) == SubSeq(page.status_html, 2, Len(page.status_html) - 1)

\* C1: a rejected POST (parse failure or validation errors) is answered 400, makes
\* no call of run_pipeline and leaves LAST_RESULTS_JSON, LAST_SUMMARY_MD and
\* LAST_LOGS as they were, whatever they held.
C1_RejectedPostIs400AndLeavesState ==
  [][(IsPost' /\ MustReject(resp'[1].req.qs))
       => /\ resp'[1].status = 400
          /\ calls'.pipeline = 0
          /\ calls'.engine = 0
          /\ globals' = globals]_vars

C1_Witness ==
  /\ IsPost /\ MustReject(resp[1].req.qs) /\ ~ParseFails(resp[1].req.qs)
  /\ resp[1].status = 400
  /\ Len(LAST_RESULTS_JSON) = 1 /\ Len(LAST_LOGS) > 0

\* C2: a POST that passes parsing and validation is answered 200 whatever the
\* engine did, and the page's status label is "Completed" exactly when the run's
\* raw_result is present, "Completed with errors" exactly when it is absent.
C2_AcceptedPostIs200 ==
  (IsPost /\ ~MustReject(resp[1].req.qs))
    => /\ resp[1].status = 200
       /\ StatusLabel(resp[1].page[1]) \in {<<"Completed">>, <<"Completed with errors">>}
       /\ (StatusLabel(resp[1].page[1]) = <<"Completed">>) <=> (Len(lastRun.results) = 1)

C2_Witness ==
  /\ IsPost /\ ~MustReject(resp[1].req.qs) /\ resp[1].status = 200
  /\ StatusLabel(resp[1].page[1]) = <<"Completed with errors">>
  /\ lastRun.summary[1][1] = "**Import error:** "

\* C3: ServerState starts empty and, whenever no POST is in progress, holds
\* exactly the summary, raw_result and log lines of the most recent POST that
\* reached the pipeline; a failed run replaces a stored raw_result by None.
C3_LastWriteWins == (pc = "idle") => (ServerState = lastRun)

C3_Witness ==
  /\ pc = "idle" /\ everSuccess
  /\ Len(LAST_RESULTS_JSON) = 0 /\ Len(LAST_SUMMARY_MD) = 1

\* C4: GET /results.json answers 200 with the stored raw_result verbatim, or {}
\* when none is stored; {} as long as no POST has completed with a raw_result;
\* the request does not change ServerState.
C4_ResultsEndpoint ==
  [][IsGetResults'
       => /\ resp'[1].status = 200
          /\ resp'[1].data[1] = (IF Len(LAST_RESULTS_JSON) = 1 THEN LAST_RESULTS_JSON[1]
                               ELSE <<"{", "}">>)
          /\ (~everSuccess => resp'[1].data[1] = <<"{", "}">>)
          /\ globals' = globals]_vars

C4_Witness ==
  /\ IsGetResults /\ resp[1].status = 200
  /\ Len(resp[1].data[1]) > 2 /\ resp[1].data[1] = LAST_RESULTS_JSON[1]

\* C5: a request that reads ServerState finds either the complete outcome stored
\* before the POST in progress or the complete outcome that POST stores, never
\* a mixture of the two.
C5_NoTornRead == (Len(seen) = 1) => (seen[1].state \in {seen[1].old, seen[1].new})

\* a POST is between its three assignments and ServerState is a mixture
C5_Witness ==
  /\ pc \in {"store_results", "store_logs"}
  /\ ServerState # cur[1].prev
  /\ ServerState # Stored(cur[1].out[1])

\* C6: a GET of any path but /results.json is answered 200 with the idle page
\* (status Idle, no validation errors, no log lines, the summary placeholder)
\* whatever ServerState holds, and leaves ServerState unchanged.
C6_GetRendersIdlePage ==
  [][IsGetPage'
       => /\ resp'[1].status = 200
          /\ StatusLabel(resp'[1].page[1]) = <<"Idle">>
          /\ resp'[1].page[1].validation_html = <<>>
          /\ resp'[1].page[1].logs_html = <<>>
          /\ resp'[1].page[1].summary_html = <<"(no summary yet)">>
          /\ globals' = globals]_vars

C6_Witness ==
  /\ IsGetPage /\ resp[1].status = 200
  /\ Len(LAST_SUMMARY_MD) = 1 /\ Len(LAST_RESULTS_JSON) = 1 /\ Len(LAST_LOGS) > 0

----------------------------------------------------------------------------
(* Claims about two servers *)

TwinRejected ==
  /\ Len(twin) = 1 /\ Len(twin[1].a.resp) = 1
  /\ twin[1].a.resp[1].req.method = "POST" /\ MustReject(twin[1].a.resp[1].req.qs)

\* C7 as stated: the response to a rejected POST is the same whatever
\* ServerState holds.
C7_RejectedResponseIgnoresState == TwinRejected => (twin[1].a.resp = twin[1].b.resp)

\* C7 as amended: the response to a rejected POST depends on ServerState through
\* the stored summary only: the two responses agree in everything but the summary
\* slot, which shows the server's stored summary (the placeholder when there is
\* none), and the page shows no log line.
C7_RejectedResponseShowsOnlyLastSummary ==
  TwinRejected =>
    LET ra == twin[1].a.resp[1]
        rb == twin[1].b.resp[1]
    IN /\ ra.status = 400 /\ rb.status = 400
       /\ [ra.page[1] EXCEPT !.summary_html = <<>>] = [rb.page[1] EXCEPT !.summary_html = <<>>]
       /\ ra.page[1].logs_html = <<>>
       /\ ra.page[1].summary_html
            = html_escape(OrElse(twin[1].a.state.summary, <<"(no summary yet)">>))
       /\ rb.page[1].summary_html
            = html_escape(OrElse(twin[1].b.state.summary, <<"(no summary yet)">>))
       /\ (twin[1].a.state.summary = twin[1].b.state.summary => ra = rb)

\* both servers rejected the POST; one holds a result and log lines, the other
\* the outcome of a failed run
C7_Witness ==
  /\ TwinRejected
  /\ Len(twin[1].a.state.results) = 1 /\ Len(twin[1].a.state.logs) > 0
  /\ Len(twin[1].b.state.results) = 0 /\ Len(twin[1].b.state.summary) = 1

----------------------------------------------------------------------------
(* Claims about run_pipeline *)

BridgeReturned == Len(bridge) = 1 /\ Len(bridge[1].out) = 1

\* whether the tokens of part occur in s, in order and adjacent
Contains(s, part) ==
  \E i \in 0..(Len(s) - Len(part)) : SubSeq(s, i + 1, i + Len(part)) = part

\* C8: run_pipeline returns an outcome and lets no exception out, whatever the
\* engine does (cannot be imported, raises ModuleNotFoundError, raises another
\* Exception, returns); raw_result is present exactly when the engine returned
\* and its result was serialized; otherwise the summary is a non-empty
\* diagnostic, with the remediation text in the import and missing-dependency
\* cases.
C8_RunPipelineAlwaysReturns ==
  BridgeReturned =>
    LET eng == bridge[1].eng
        out == bridge[1].out[1]
    IN /\ out.raised = ""
       /\ (Len(out.results_json) = 1) <=> (eng.kind = "return" /\ eng.results.ser)
       /\ (Len(out.results_json) = 0) =>
            /\ Len(out.summary) > 0
            /\ out.summary[1] \in {"**Import error:** ", "**Dependency missing:** ",
                                    "**Run failed:** "}
       /\ (eng.kind = "load_fail") =>
            (out.summary[1] = "**Import error:** " /\ Contains(out.summary, ImportGuidance))
       /\ (eng.kind = "raise" /\ eng.cls = "ModuleNotFoundError") =>
            (out.summary[1] = "**Dependency missing:** "
             /\ Contains(out.summary, InstallGuidance))

\* the engine returned a result json.dumps rejects: the outcome has no raw_result
C8_Witness ==
  /\ BridgeReturned
  /\ bridge[1].eng.kind = "return" /\ ~bridge[1].eng.results.ser
  /\ bridge[1].out[1].summary[1] = "**Run failed:** "
  /\ Len(bridge[1].out[1].logs) > 1

----------------------------------------------------------------------------
(* Claims about the process *)

Exited == mpc = "exited" /\ Len(exitCode) = 1
ExitedWith(code) == Exited /\ exitCode[1].code = code /\ exitCode[1].uncaught = ""
Did(what) == {i \in 1..Len(events) : events[i].what = what}
SelfTestSet == Len(env) = 1 /\ env[1].vars.RUN_TESTS = Some(<<"1">>)
OneShotSet == Len(env) = 1 /\ env[1].vars.APQA_RUN_ONCE = Some(<<"1">>)
ListenerUnsupported ==
  Len(env) = 1 /\ env[1].listen.cls = "OSError" /\ NotSupported(env[1].listen)
StaticWritten == \E i \in Did("static") : events[i].path = UI_OUT(env[1])

\* C9: when opening the listener fails with the "not supported" classification
\* the process writes the static page to the configured path and exits with
\* code 0; when it fails otherwise the exception propagates and no static page
\* is written.
C9_ListenerFailure ==
  (Exited /\ Did("listen") # {} /\ env[1].listen.cls # "") =>
    IF ListenerUnsupported
    THEN ExitedWith(0) /\ StaticWritten
    ELSE exitCode[1].uncaught = env[1].listen.cls /\ Did("static") = {}

EngineCountOk(n) == IsNone(n) \/ n[1] >= 1

\* C11: every call of the engine made by a one-shot run passes a requested
\* test count that is none or an integer >= 1 (the POST half of the claim is
\* C11_PostCountPositive).
C11_EngineCountPositive ==
  \A i \in Did("pipeline") : events[i].info.engine => EngineCountOk(events[i].info.num_tests)

\* C11, POST half: a POST that reaches the engine carries a requested test
\* count that is none or an integer >= 1.
C11_PostCountPositive ==
  (Len(cur) = 1 /\ pc # "idle") => EngineCountOk(cur[1].fields.num_tests)

\* one of the three required settings is missing, or empty after trimming
MissingRequired ==
  \E name \in {"APQA_API_KEY", "APQA_URL", "APQA_PRD_TEXT"} :
    \/ IsNone(env[1].vars[name])
    \/ \A i \in 1..Len(env[1].vars[name][1]) : env[1].vars[name][1][i] \in Whitespace
OneShotRejected == Exited /\ ~SelfTestSet /\ OneShotSet /\ MissingRequired
NothingRun == Did("pipeline") = {} /\ Did("report") = {} /\ Did("results") = {}

\* C12 as stated: a one-shot run with a required setting missing exits with
\* code 2 without running the engine or writing a file; exit code 0 comes only
\* from a passed self-test, a completed one-shot run or the static fallback,
\* and exit code 1 only from a failed self-test.
C12_ExitCodesAsStated ==
  /\ OneShotRejected => (exitCode[1].code = 2 /\ NothingRun)
  /\ (Exited /\ exitCode[1].code = 0) =>
       \/ Did("tests") # {} /\ wasSuccessful
       \/ Did("report") # {}
       \/ Did("static") # {}
  /\ (Exited /\ exitCode[1].code = 1) => (Did("tests") # {} /\ ~wasSuccessful)

\* C12 as amended: a one-shot run with a required setting missing exits with
\* code 2 without running the engine or writing a file, and code 2 has no
\* other origin; exit code 0 comes only from a passed self-test, a completed
\* one-shot run, the static fallback or the shutdown of a server that was
\* interrupted; exit code 1 comes from a failed self-test or from an exception
\* that nothing catches (a listener failure that is not "not supported", a
\* directory that cannot be created).
C12_ExitCodes ==
  /\ OneShotRejected => (exitCode = Some([code |-> 2, uncaught |-> ""]) /\ NothingRun)
  /\ (Exited /\ exitCode[1].code = 2) => (OneShotRejected /\ exitCode[1].uncaught = "")
  /\ (Exited /\ exitCode[1].code = 0) =>
       /\ exitCode[1].uncaught = ""
       /\ \/ Did("tests") # {} /\ wasSuccessful
          \/ Did("report") # {}
          \/ Did("static") # {}
          \/ Did("shutdown") # {}
  /\ (Exited /\ exitCode[1].code = 1) =>
       \/ Did("tests") # {} /\ ~wasSuccessful
       \/ exitCode[1].uncaught \in {"OSError", "OverflowError", "FileNotFoundError"}
  /\ Exited => exitCode[1].code \in {0, 1, 2}

C12_Witness ==
  /\ OneShotRejected /\ exitCode[1].code = 2
  /\ IsNone(env[1].vars.APQA_URL) /\ ~IsNone(env[1].vars.APQA_API_KEY)

\* the modes of a process run, by what the process did
RanSelfTest == Did("tests") # {}
RanOneShot == Did("pipeline") # {} \/ Did("report") # {} \/ Did("results") # {}
Served == mpc = "serving" \/ Did("shutdown") # {}
FellBack == Did("static") # {}
ModesTaken ==
  {m \in {"self-test", "one-shot", "serve", "fallback"} :
     \/ m = "self-test" /\ RanSelfTest
     \/ m = "one-shot" /\ (RanOneShot \/ (Exited /\ Did("tests") = {} /\ Did("listen") = {}))
     \/ m = "serve" /\ (Served \/ (Exited /\ Did("listen") # {} /\ ~FellBack))
     \/ m = "fallback" /\ FellBack}

\* C13: with the self-test trigger set the process runs only its test suite
\* and exits with 0 on pass and 1 on failure, whatever else is set: it never
\* tries to listen, never runs the pipeline and never writes the static page,
\* the report or the result; and no run of the process mixes two of the
\* modes self-test, one-shot, serve and static fallback, a finished run
\* having taken exactly one.
C13_SelfTestOnly ==
  /\ SelfTestSet =>
       /\ Did("listen") = {} /\ ~RanOneShot /\ ~Served /\ ~FellBack
       /\ mpc \in {"start", "exited"}
       /\ Exited => /\ RanSelfTest
                    /\ exitCode = Some([code |-> IF wasSuccessful THEN 0 ELSE 1, uncaught |-> ""])
  /\ Cardinality(ModesTaken) <= 1
  /\ Exited => Cardinality(ModesTaken) = 1
  /\ RanSelfTest => SelfTestSet

C13_Witness ==
  /\ Exited /\ SelfTestSet /\ OneShotSet /\ ~MissingRequired /\ ListenerUnsupported
  /\ RanSelfTest /\ exitCode[1].code = 0

----------------------------------------------------------------------------
(* Claims about the requests' stages *)

----------------------------------------------------------------------------
(* Claims about the log lines *)

\* C15: the log lines of an outcome are the messages the engine passed to the
\* sink during that call, all of them, once each and in the order they were
\* emitted: none when the engine could not be loaded, and the ones emitted
\* before the failure when the engine raised; no line of an earlier call is
\* among them.
C15_LogsAreTheEmissions ==
  BridgeReturned =>
    LET eng == bridge[1].eng
        out == bridge[1].out[1]
    IN /\ out.logs = (IF eng.kind = "load_fail" THEN <<>> ELSE eng.emits)
       /\ Len(out.logs) = Len(eng.emits)
       /\ \A i \in 1..Len(eng.emits) : out.logs[i] = eng.emits[i]

\* a failed call that emitted two different messages, after a call that had
\* logged other lines
C15_Witness ==
  /\ BridgeReturned
  /\ bridge[1].eng.kind = "raise"
  /\ bridge[1].out[1].logs = << <<"<", "b", ">">>, <<"a">> >>
  /\ bridge[1].before = Some(<< <<"a">> >>)

----------------------------------------------------------------------------
(* Claims about validate_fields *)

Validated == Len(fn) = 1 /\ Len(fn[1].errs) = 1
RequiredMsg ==
  [api_key |-> <<"Anthropic API Key is required.">>,
   url |-> <<"Application URL is required.">>,
   prd_text |-> <<"PRD text is required.">>]
RequiredRank == [api_key |-> 1, url |-> 2, prd_text |-> 3]
RequiredNames == {"api_key", "url", "prd_text"}

\* C16: validate_fields gives one message per empty field among credential,
\* target URL and requirements text, and nothing else, in the order
\* credential, target URL, requirements text; the result is empty exactly
\* when the three are non-empty, and it is the same for every test count and
\* headless value.
C16_ValidateFields ==
  Validated =>
    LET f == fn[1].fields
        errs == fn[1].errs[1]
        empty == {x \in RequiredNames : f[x] = <<>>}
    IN /\ Len(errs) = Cardinality(empty)
       /\ \A x \in empty : \E i \in 1..Len(errs) : errs[i] = RequiredMsg[x]
       /\ \A i \in 1..Len(errs) : \E x \in empty : errs[i] = RequiredMsg[x]
       /\ \A i, j \in 1..Len(errs) :
            (i < j) => \E x, y \in empty :
                         /\ errs[i] = RequiredMsg[x] /\ errs[j] = RequiredMsg[y]
                         /\ RequiredRank[x] < RequiredRank[y]
       /\ (errs = <<>>) <=> (empty = {})
       /\ \A n \in ValidateCounts, h \in BOOLEAN :
            validate_fields([f EXCEPT !.num_tests = n, !.headless = h]) = errs

C16_Witness ==
  /\ Validated
  /\ fn[1].fields.api_key = <<>> /\ fn[1].fields.url = <<>> /\ fn[1].fields.prd_text = <<" ">>
  /\ fn[1].fields.num_tests = Some(5) /\ fn[1].fields.headless
  /\ Len(fn[1].errs[1]) = 2

----------------------------------------------------------------------------
(* Claims about parse_fields *)

Parsed == Len(fn) = 1 /\ Len(fn[1].out) = 1
\* the first value of a key of the query, the empty text when the key is absent
FirstValue(qs, k) == IF k \in DOMAIN qs THEN qs[k][1] ELSE <<>>
Blank(s) == \A i \in 1..Len(s) : s[i] \in Whitespace

\* C17: parse_fields gives requested_test_count = none when the test-count
\* field is missing, empty or only whitespace; the integer when the trimmed
\* text parses as an integer >= 1; and for every other text (no integer, zero,
\* negative) it fails with the invalid-input message and gives no fields.
C17_TestCountMapping ==
  Parsed =>
    LET raw == FirstValue(fn[1].qs, "num_tests")
        out == fn[1].out[1]
        count == IF IsIntLiteral(strip(raw)) THEN IntValue(strip(raw)) ELSE 0
    IN IF Blank(raw)
       THEN out.raised = "" /\ out.fields[1].num_tests = None
       ELSE IF count >= 1
       THEN out.raised = "" /\ out.fields[1].num_tests = Some(count)
       ELSE /\ out.raised = "ValueError"
            /\ out.msg = <<"Number of tests must be a positive integer if provided.">>
            /\ out.fields = None

\* the three cases: a count of 12 out of " 12 ", none out of whitespace, and a
\* refused zero
C17_Witness ==
  /\ Parsed
  /\ \/ /\ FirstValue(fn[1].qs, "num_tests") = <<" ", "1", "2", " ">>
        /\ fn[1].out[1].fields[1].num_tests = Some(12)
     \/ /\ FirstValue(fn[1].qs, "num_tests") = <<"0">>
        /\ fn[1].out[1].raised = "ValueError"

\* C18: parse_fields gives headless = true exactly when the headless key is
\* present and its first value is "on", "true" or "1"; absent, or present
\* with any other first value, it gives false.
C18_HeadlessMapping ==
  (Parsed /\ fn[1].out[1].raised = "") =>
    LET qs == fn[1].qs
        truthy == /\ "headless" \in DOMAIN qs
                  /\ qs["headless"][1] \in {<<"o", "n">>, <<"t", "r", "u", "e">>, <<"1">>}
    IN fn[1].out[1].fields[1].headless = truthy

C18_Witness ==
  /\ Parsed /\ fn[1].out[1].raised = ""
  /\ "headless" \in DOMAIN fn[1].qs
  /\ fn[1].qs["headless"] = << <<"O", "N">> >>
  /\ ~fn[1].out[1].fields[1].headless

----------------------------------------------------------------------------
(* Claims about render_page *)

RenderedTwice == Len(fn) = 1 /\ Len(fn[1].again) = 1

\* C19: render_page is pure: a context rendered twice gives the same page,
\* whatever requests were handled and however ServerState changed in between,
\* and a rendering leaves LAST_RESULTS_JSON, LAST_SUMMARY_MD and LAST_LOGS as
\* they were.
C19_RenderPageIsPure ==
  [][ /\ (fn' # fn) => (globals' = globals)
      /\ RenderedTwice' => (fn'[1].again[1] = fn'[1].first) ]_vars

\* a context without summary rendered before and after a run was stored
C19_Witness ==
  /\ RenderedTwice
  /\ IsNone(fn[1].ctx.summary_md)
  /\ fn[1].at = EmptyState
  /\ ~IsNone(LAST_SUMMARY_MD) /\ ~IsNone(LAST_RESULTS_JSON) /\ Len(LAST_LOGS) > 0

----------------------------------------------------------------------------
(* Claims about the stages of a POST *)

\* the moves of do_POST: rejected or answered within one step (idle to idle),
\* or parsed and validated, executed, stored field by field, rendered
StageMoves ==
  { <<"idle", "idle">>, <<"idle", "run">>, <<"run", "store_summary">>,
    <<"store_summary", "store_results">>, <<"store_results", "store_logs">>,
    <<"store_logs", "render">>, <<"render", "idle">> }
EngineCalledNow == calls'.pipeline = calls.pipeline + 1
PostAnsweredNow(status) ==
  /\ resp' # resp /\ Len(resp') = 1
  /\ resp'[1].req.method = "POST" /\ resp'[1].status = status

\* C20: a POST goes through its stages in order only: the engine is called
\* only for a request that parsed and whose validation gave no error,
\* ServerState is written only after that call returned, the page of a run is
\* sent only once ServerState holds the run's outcome, and a rejection goes
\* straight to the response, with no engine call and no write.
C20_StagesInOrder ==
  [][ /\ <<pc, pc'>> \in StageMoves
      /\ EngineCalledNow =>
           /\ pc = "run" /\ Len(cur) = 1
           /\ ~MustReject(cur[1].req.qs)
           /\ IsNone(cur[1].out)
      /\ (globals' # globals) =>
           /\ calls.pipeline = 1 /\ calls' = calls
           /\ Len(cur) = 1 /\ Len(cur[1].out) = 1
           /\ resp' = resp /\ IsNone(resp)
      /\ PostAnsweredNow(200) =>
           /\ pc = "render" /\ pc' = "idle"
           /\ calls.pipeline = 1
           /\ ServerState = Stored(cur[1].out[1]) /\ globals' = globals
      /\ PostAnsweredNow(400) =>
           /\ pc = "idle" /\ pc' = "idle"
           /\ MustReject(resp'[1].req.qs)
           /\ calls' = NoCalls /\ globals' = globals
      /\ ~PostAnsweredNow(0) ]_vars

\* the page of a run that logged and has a result has just been sent, ServerState
\* holding that run
C20_Witness ==
  /\ IsPost /\ resp[1].status = 200 /\ pc = "idle"
  /\ calls = [pipeline |-> 1, engine |-> 1]
  /\ Len(LAST_LOGS) > 0 /\ ~IsNone(LAST_RESULTS_JSON)
  /\ ServerState = lastRun

----------------------------------------------------------------------------
(* Claims about a one-shot run *)

OneShotValid == ~SelfTestSet /\ OneShotSet /\ ~MissingRequired

\* C21: a one-shot run whose three required settings are non-empty runs the
\* pipeline exactly once, writes the report, writes the structured result
\* exactly when the run has a raw_result, and exits with code 0 even when the
\* engine failed; it never tries to listen and never writes the static page.
C21_OneShotCompletes ==
  (Exited /\ OneShotValid) =>
    /\ Cardinality(Did("pipeline")) = 1
    /\ \E i \in Did("report") : events[i].path = REPORT_HTML(env[1])
    /\ IF \E j \in Did("pipeline") : events[j].info.results
       THEN \E i \in Did("results") : events[i].path = RESULTS_JSON(env[1])
       ELSE Did("results") = {}
    /\ ExitedWith(0)
    /\ Did("listen") = {} /\ Did("static") = {}

====
